---- MODULE Spec2Model ----
(***************************************************************************)
(* Lightmap seam stitching (Glow/LightmapStitcher): the stitching context, *)
(* the seams model and the ping-pong driver StitchLightmapSeams, modelled  *)
(* from src/Source/Urho3D/UI2/RmlRenderer.h lines 111-335.                 *)
(*                                                                         *)
(* Floats are abstracted to small integers (the only arithmetic the code   *)
(* does on them is 1 - y).  A lightmap image is abstracted to the pair     *)
(* (which baked image, how many stitch passes have been applied to it);    *)
(* base 0 stands for indeterminate content (a texture that was never       *)
(* written, or a render that sampled such a texture).                      *)
(***************************************************************************)
EXTENDS Integers, Sequences, FiniteSets, TLC

\* ------------------------------------------------------------------------
\* Bounds of the model
MaxLightmapSize == 2
MaxNumChannels == 5
MaxSeams == 3
MaxIterations == 3
NumImages == 2

\* ------------------------------------------------------------------------
\* Values

TextureNames == {"pingTexture_", "pongTexture_"}
ViewNames == {"pingView", "pongView"}

\* Graphics::GetFloat32Format(), GetRGFloat32Format(), GetRGBAFloat32Format():
\* backend format tokens; 0 is no format of any backend.
GetFloat32Format == "Float32"
GetRGFloat32Format == "RGFloat32"
GetRGBAFloat32Format == "RGBAFloat32"
NoFormat == "0"

TEXTURE_RENDERTARGET == "TEXTURE_RENDERTARGET"
LINE_LIST == "LINE_LIST"

\* Indeterminate image content.
Garbage == [base |-> 0, passes |-> 0]

\* The caller's baked pixel buffers.
Images == [base : 1..NumImages, passes : {0}]

\* One stitching render pass applied to an image.
StitchPass(image) ==
    IF image.base = 0 THEN Garbage ELSE [image EXCEPT !.passes = @ + 1]

\* MakeShared<Texture2D>(context): no GPU object, no size, no format.
NewTexture ==
    [allocated |-> FALSE, width_ |-> 0, height_ |-> 0, format_ |-> NoFormat,
     levels_ |-> 0, usage_ |-> "TEXTURE_STATIC", data |-> Garbage]

\* Outcomes of Texture2D::SetSize: the texture is created; the call is
\* rejected before anything is stored; or the fields are stored and the
\* creation of the GPU object fails.  The last two return false.
SetSizeOutcomes == {"ok", "rejected", "createFailed"}

Texture2D_SetNumLevels(texture, levels) == [texture EXCEPT !.levels_ = levels]

Texture2D_SetSize(texture, width, height, format, usage, outcome) ==
    IF outcome = "rejected"
    THEN texture
    ELSE [texture EXCEPT !.allocated = (outcome = "ok"),
                         !.width_ = width, !.height_ = height,
                         !.format_ = format, !.usage_ = usage,
                         !.data = Garbage]

\* Texture2D::SetData of the whole level 0: stored when the texture exists.
Texture2D_SetData(texture, image) ==
    IF texture.allocated THEN [texture EXCEPT !.data = image] ELSE texture

\* Texture2D::GetData into the caller's buffer: the buffer is overwritten
\* when the texture exists and left alone otherwise.
Texture2D_GetData(texture, buffer) ==
    IF texture.allocated THEN texture.data ELSE buffer

\* ------------------------------------------------------------------------
\* Seams

Point(x, y) == [x_ |-> x, y_ |-> y]

\* The detected seams the caller may pass (coordinates 0 and 1 only).
ScenarioSeam ==
    [positions_ |-> <<Point(0, 0), Point(1, 0)>>,
     otherPositions_ |-> <<Point(0, 1), Point(1, 1)>>]

SeamPool ==
    { ScenarioSeam,
      [positions_ |-> <<Point(1, 1), Point(0, 1)>>,
       otherPositions_ |-> <<Point(1, 0), Point(0, 0)>>],
      [positions_ |-> <<Point(0, 1), Point(0, 0)>>,
       otherPositions_ |-> <<Point(1, 0), Point(1, 1)>>] }

SeamVectors == UNION { [1..k -> SeamPool] : k \in 0..MaxSeams }

LightmapSizes == 0..MaxLightmapSize
ChannelCounts == 0..MaxNumChannels

\* The inputs of the whole-job specification: repetitions of one seam, a zero and a non-zero size, an invalid and a valid channel count.
JobSeamVectors == { sv \in SeamVectors : \A k \in 1..Len(sv) : sv[k] = ScenarioSeam }
JobLightmapSizes == {0, MaxLightmapSize}
JobChannelCounts == {3, 4}

\* Mutant: the other side's Y is mirrored like the position's.
SeamVertexMirrorsOtherY(seam, i) ==
    << seam.positions_[i].x_,
       0,
       1 - seam.positions_[i].y_,
       seam.otherPositions_[i].x_,
       1 - seam.otherPositions_[i].y_ >>

\* CreateSeamsVertexBuffer, the loop body: the 5 floats pushed for endpoint i
\* of one seam (i = 1, 2 here for the code's i = 0, 1).
SeamVertex(seam, i) ==
    << seam.positions_[i].x_,
       0,
       1 - seam.positions_[i].y_,
       seam.otherPositions_[i].x_,
       seam.otherPositions_[i].y_ >>

RECURSIVE SeamVertexData(_)
SeamVertexData(seamVector) ==
    IF seamVector = << >>
    THEN << >>
    ELSE SeamVertex(Head(seamVector), 1) \o SeamVertex(Head(seamVector), 2)
         \o SeamVertexData(Tail(seamVector))

\* Floats per vertex of the layout { TYPE_VECTOR3 SEM_POSITION, TYPE_VECTOR2 SEM_TEXCOORD }.
VertexElements == << [type |-> "TYPE_VECTOR3", semantic |-> "SEM_POSITION", floats |-> 3],
                     [type |-> "TYPE_VECTOR2", semantic |-> "SEM_TEXCOORD", floats |-> 2] >>
VertexSize == VertexElements[1].floats + VertexElements[2].floats

CreateSeamsVertexBuffer(seamVector) ==
    LET vertexData == SeamVertexData(seamVector)
        vertexCount == Len(seamVector) * 2
    IN  [shadowed_ |-> TRUE,
         vertexCount_ |-> vertexCount,
         elements_ |-> VertexElements,
         \* SetData copies vertexCount_ vertices out of the array it is given
         data |-> SubSeq(vertexData, 1, vertexCount * VertexSize)]

\* Mutant: the draw range counts one vertex per seam.
CreateSeamsModelOneVertexPerSeam(seamVector) ==
    LET vertexBuffer == CreateSeamsVertexBuffer(seamVector)
        geometry == [vertexBuffers_ |-> << vertexBuffer >>,
                     primitiveType_ |-> LINE_LIST,
                     indexStart_ |-> 0,
                     indexCount_ |-> 0,
                     vertexStart_ |-> 0,
                     vertexCount_ |-> Len(seamVector)]
    IN  [boundingBox_ |-> [min |-> -1, max |-> 1],
         numGeometries |-> 1,
         vertexBuffers_ |-> << vertexBuffer >>,
         geometry |-> geometry]

CreateSeamsModel(seamVector) ==
    LET vertexBuffer == CreateSeamsVertexBuffer(seamVector)
        geometry == [vertexBuffers_ |-> << vertexBuffer >>,
                     primitiveType_ |-> LINE_LIST,
                     indexStart_ |-> 0,
                     indexCount_ |-> 0,
                     vertexStart_ |-> 0,
                     vertexCount_ |-> Len(seamVector) * 2]
    IN  [boundingBox_ |-> [min |-> -1, max |-> 1],
         numGeometries |-> 1,
         vertexBuffers_ |-> << vertexBuffer >>,
         geometry |-> geometry]

\* No model has been built yet.
NoModel == [numGeometries |-> 0]

\* ------------------------------------------------------------------------
\* Stitching context

\* GetStitchTextureFormat: the format returned, and whether assert(0) is hit
\* on the way (the default branch is assert(0); return 0;).
\* Mutant: two channels get the one-channel format.
GetStitchTextureFormatTwoAsOne(numChannels) ==
    CASE numChannels = 1 -> [asserts |-> FALSE, format |-> GetFloat32Format]
      [] numChannels = 2 -> [asserts |-> FALSE, format |-> GetFloat32Format]
      [] numChannels = 4 -> [asserts |-> FALSE, format |-> GetRGBAFloat32Format]
      [] OTHER -> [asserts |-> TRUE, format |-> NoFormat]

GetStitchTextureFormat(numChannels) ==
    CASE numChannels = 1 -> [asserts |-> FALSE, format |-> GetFloat32Format]
      [] numChannels = 2 -> [asserts |-> FALSE, format |-> GetRGFloat32Format]
      [] numChannels = 4 -> [asserts |-> FALSE, format |-> GetRGBAFloat32Format]
      [] OTHER -> [asserts |-> TRUE, format |-> NoFormat]

\* The loop body of InitializeStitchingContext for one texture.
InitializeTexture(lightmapSize, textureFormat, outcome) ==
    Texture2D_SetSize(Texture2D_SetNumLevels(NewTexture, 1),
                      lightmapSize, lightmapSize, textureFormat,
                      TEXTURE_RENDERTARGET, outcome)

\* The LightmapStitchingContext InitializeStitchingContext returns when it returns.
InitializeStitchingContext(lightmapSize, numChannels, outcomes) ==
    LET textureFormat == GetStitchTextureFormat(numChannels).format
    IN  [lightmapSize_ |-> lightmapSize,
         pingTexture_ |-> InitializeTexture(lightmapSize, textureFormat, outcomes.pingTexture_),
         pongTexture_ |-> InitializeTexture(lightmapSize, textureFormat, outcomes.pongTexture_)]

NoContext ==
    [lightmapSize_ |-> 0, pingTexture_ |-> NewTexture, pongTexture_ |-> NewTexture]

\* InitializeStitchingContext has not been called.
NoInitCall ==
    [called |-> FALSE, lightmapSize |-> 0, numChannels |-> 0,
     outcomes |-> [pingTexture_ |-> "none", pongTexture_ |-> "none"]]

\* ------------------------------------------------------------------------
\* State

VARIABLES
    assertsEnabled,     \* the build: FALSE when compiled with NDEBUG
    pc,                 \* where the caller / StitchLightmapSeams is
    seams,              \* the seam vector last given to CreateSeamsModel
    seamsModel,         \* the model CreateSeamsModel returned
    initCall,           \* arguments and SetSize outcomes of the last InitializeStitchingContext
    stitchingContext,   \* the context InitializeStitchingContext returned
    imageData,          \* the caller's pixel buffer
    inputImage,         \* imageData at the time StitchLightmapSeams was called
    numIterations_,     \* settings.numIterations_ of the running / last call
    views,              \* input and output texture of pingView and pongView
    currentTexture, swapTexture, currentView, swapView, i,   \* locals of StitchLightmapSeams
    frame,              \* frame bracket of the running / last StitchLightmapSeams
    calls               \* graphics calls of the running / last StitchLightmapSeams

vars == << assertsEnabled, pc, seams, seamsModel, initCall, stitchingContext,
           imageData, inputImage, numIterations_, views,
           currentTexture, swapTexture, currentView, swapView, i, frame, calls >>

locals == << currentTexture, swapTexture, currentView, swapView, i >>

\* The camera component, lengths in hundredths of a world unit: a new camera
\* is perspective with the engine's default clip planes, and SetNearClip keeps
\* the near plane at or above the engine's minimum.
Camera_New ==
    [orthographic_ |-> FALSE, orthoSize_ |-> 2000, nearClip_ |-> 10, farClip_ |-> 100000]

Camera_SetOrthographic(camera, enable) == [camera EXCEPT !.orthographic_ = enable]

Camera_SetOrthoSize(camera, orthoSize) == [camera EXCEPT !.orthoSize_ = orthoSize]

Camera_SetNearClip(camera, nearClip) ==
    [camera EXCEPT !.nearClip_ = IF nearClip < 1 THEN 1 ELSE nearClip]

\* CreateStitchingScene: the scene's background and seams materials both
\* sample inputTexture.
\* The camera sits at height 1 looking down, the background node at height 0
\* and the seams node at height 0.1 (heights in hundredths).
CreateStitchingScene(inputTexture, model) ==
    LET camera0 == Camera_New
        camera1 == Camera_SetOrthographic(camera0, TRUE)
        camera2 == Camera_SetOrthoSize(camera1, 100)
        camera3 == Camera_SetNearClip(camera2, 10)
        camera4 == Camera_SetNearClip(camera3, 1000)
    IN  [inputTexture |-> inputTexture,
         seamsModel |-> model,
         cameraNode |-> [y |-> 100, direction |-> "DOWN", camera |-> camera4],
         backgroundNode |-> [y |-> 0, texture |-> inputTexture, renderOrder |-> 0],
         seamsNode |-> [y |-> 10, texture |-> inputTexture, renderOrder |-> 1,
                        model |-> model]]

\* CreateStitchingViewAndViewport: the view renders the scene into outputTexture.
CreateStitchingViewAndViewport(scene, outputTexture) ==
    [scene |-> scene, renderTarget |-> outputTexture]

NoViews ==
    [v \in ViewNames |->
        CreateStitchingViewAndViewport(CreateStitchingScene("none", NoModel), "none")]

\* View::Render: the render target receives one stitching pass over the
\* content of the scene's input texture; nothing is stored in a render
\* target that was never created.
View_Render(context, view) ==
    LET input == context[view.scene.inputTexture]
        output == context[view.renderTarget]
    IN  [context EXCEPT ![view.renderTarget] =
            IF output.allocated
            THEN [output EXCEPT !.data = StitchPass(input.data)]
            ELSE output]

\* Graphics calls, as recorded in calls.
Call(op, arg) == [op |-> op, arg |-> arg]

Init ==
    /\ assertsEnabled \in BOOLEAN
    /\ pc = "idle"
    /\ seams = << >>
    /\ seamsModel = NoModel
    /\ initCall = NoInitCall
    /\ stitchingContext = NoContext
    /\ imageData \in Images
    /\ inputImage = imageData
    /\ numIterations_ = 0
    /\ views = NoViews
    /\ currentTexture = "none"
    /\ swapTexture = "none"
    /\ currentView = "none"
    /\ swapView = "none"
    /\ i = 0
    /\ frame = "none"
    /\ calls = << >>

\* ------------------------------------------------------------------------
\* The caller builds the seams model, once per job.

CallCreateSeamsModel(seamVectors) ==
    /\ pc \in {"idle", "ready"}
    /\ seamsModel = NoModel
    /\ \E seamVector \in seamVectors :
        /\ seams' = seamVector
        /\ seamsModel' = CreateSeamsModel(seamVector)
    /\ UNCHANGED << assertsEnabled, pc, initCall, stitchingContext, imageData,
                    inputImage, numIterations_, views, locals, frame, calls >>

\* ------------------------------------------------------------------------
\* The caller creates the stitching context, once per job.

\* InitializeStitchingContext runs to its return statement.
InitializeStitchingContextReturns(lightmapSizes, channelCounts) ==
    /\ pc = "idle"
    /\ \E lightmapSize \in lightmapSizes, numChannels \in channelCounts,
          outcomes \in [TextureNames -> SetSizeOutcomes] :
        /\ ~(GetStitchTextureFormat(numChannels).asserts /\ assertsEnabled)
        /\ initCall' = [called |-> TRUE, lightmapSize |-> lightmapSize,
                        numChannels |-> numChannels, outcomes |-> outcomes]
        /\ stitchingContext' = InitializeStitchingContext(lightmapSize, numChannels, outcomes)
    /\ pc' = "ready"
    /\ UNCHANGED << assertsEnabled, seams, seamsModel, imageData, inputImage,
                    numIterations_, views, locals, frame, calls >>

\* InitializeStitchingContext dies in the assert(0) of GetStitchTextureFormat.
InitializeStitchingContextAsserts(lightmapSizes, channelCounts) ==
    /\ pc = "idle"
    /\ \E lightmapSize \in lightmapSizes, numChannels \in channelCounts :
        /\ GetStitchTextureFormat(numChannels).asserts /\ assertsEnabled
        /\ initCall' = [called |-> TRUE, lightmapSize |-> lightmapSize,
                        numChannels |-> numChannels, outcomes |-> NoInitCall.outcomes]
    /\ pc' = "aborted"
    /\ UNCHANGED << assertsEnabled, seams, seamsModel, stitchingContext, imageData,
                    inputImage, numIterations_, views, locals, frame, calls >>

\* ------------------------------------------------------------------------
\* StitchLightmapSeams

\* for (unsigned i = 0; i < settings.numIterations_; ++i)
\* Mutant: the loop runs while i <= numIterations_.
LoopConditionInclusive(index, numIterations) == index <= numIterations

LoopCondition(index, numIterations) == index < numIterations

\* Mutant: the pong scene is given the texture its view renders into.
CreateStitchingViewsPongSamplesItself(model) ==
    LET pingScene == CreateStitchingScene("pongTexture_", model)
        pongScene == CreateStitchingScene("pongTexture_", model)
    IN  [pingView |-> CreateStitchingViewAndViewport(pingScene, "pingTexture_"),
         pongView |-> CreateStitchingViewAndViewport(pongScene, "pongTexture_")]

\* The two scenes and the two views StitchLightmapSeams builds on entry.
CreateStitchingViews(model) ==
    LET pingScene == CreateStitchingScene("pongTexture_", model)
        pongScene == CreateStitchingScene("pingTexture_", model)
    IN  [pingView |-> CreateStitchingViewAndViewport(pingScene, "pingTexture_"),
         pongView |-> CreateStitchingViewAndViewport(pongScene, "pongTexture_")]

\* Entry: render path, both scenes, both views.
StitchSetup ==
    /\ pc = "ready"
    /\ seamsModel # NoModel
    /\ \E image \in Images, numIterations \in 0..MaxIterations :
        /\ imageData' = image
        /\ inputImage' = image
        /\ numIterations_' = numIterations
    /\ views' = CreateStitchingViews(seamsModel)
    /\ currentTexture' = "none"
    /\ swapTexture' = "none"
    /\ currentView' = "none"
    /\ swapView' = "none"
    /\ i' = 0
    /\ frame' = "none"
    /\ calls' = << >>
    /\ pc' = "beginFrame"
    /\ UNCHANGED << assertsEnabled, seams, seamsModel, initCall, stitchingContext >>

\* Mutant: the failure is logged and the function goes on as if the frame had begun.
StitchBeginFrameFailsAndGoesOn ==
    /\ pc = "beginFrame"
    /\ calls' = Append(calls, Call("BeginFrame", "false"))
    /\ frame' = "failed"
    /\ currentTexture' = "pongTexture_"
    /\ swapTexture' = "pingTexture_"
    /\ currentView' = "pingView"
    /\ swapView' = "pongView"
    /\ pc' = "upload"
    /\ UNCHANGED << assertsEnabled, seams, seamsModel, initCall, stitchingContext,
                    imageData, inputImage, numIterations_, views, i >>

\* graphics->BeginFrame() returns false: log and return.
StitchBeginFrameFails ==
    /\ pc = "beginFrame"
    /\ calls' = Append(calls, Call("BeginFrame", "false"))
    /\ frame' = "failed"
    /\ pc' = "ready"
    /\ UNCHANGED << assertsEnabled, seams, seamsModel, initCall, stitchingContext,
                    imageData, inputImage, numIterations_, views, locals >>

\* graphics->BeginFrame() returns true: prepare for ping-pong.
StitchBeginFrame ==
    /\ pc = "beginFrame"
    /\ calls' = Append(calls, Call("BeginFrame", "true"))
    /\ frame' = "begun"
    /\ currentTexture' = "pongTexture_"
    /\ swapTexture' = "pingTexture_"
    /\ currentView' = "pingView"
    /\ swapView' = "pongView"
    /\ pc' = "upload"
    /\ UNCHANGED << assertsEnabled, seams, seamsModel, initCall, stitchingContext,
                    imageData, inputImage, numIterations_, views, i >>

\* currentTexture->SetData(0, 0, 0, size, size, imageData.data()); i = 0
StitchUpload ==
    /\ pc = "upload"
    /\ stitchingContext' =
         [stitchingContext EXCEPT ![currentTexture] = Texture2D_SetData(@, imageData)]
    /\ calls' = Append(calls, Call("SetData", currentTexture))
    /\ i' = 0
    /\ pc' = "loop"
    /\ UNCHANGED << assertsEnabled, seams, seamsModel, initCall, imageData, inputImage,
                    numIterations_, views, currentTexture, swapTexture, currentView,
                    swapView, frame >>

\* Mutant: the views are not swapped.
StitchIterateKeepsViews ==
    /\ pc = "loop"
    /\ LoopCondition(i, numIterations_)
    /\ stitchingContext' = View_Render(stitchingContext, views[currentView])
    /\ calls' = Append(calls, Call("Render", currentView))
    /\ currentTexture' = swapTexture
    /\ swapTexture' = currentTexture
    /\ i' = i + 1
    /\ UNCHANGED << assertsEnabled, pc, seams, seamsModel, initCall, imageData,
                    inputImage, numIterations_, views, frame, currentView, swapView >>

\* Mutant: the textures are not swapped.
StitchIterateKeepsTextures ==
    /\ pc = "loop"
    /\ LoopCondition(i, numIterations_)
    /\ stitchingContext' = View_Render(stitchingContext, views[currentView])
    /\ calls' = Append(calls, Call("Render", currentView))
    /\ currentView' = swapView
    /\ swapView' = currentView
    /\ i' = i + 1
    /\ UNCHANGED << assertsEnabled, pc, seams, seamsModel, initCall, imageData,
                    inputImage, numIterations_, views, frame, currentTexture, swapTexture >>

\* One iteration of the ping-pong loop: render, swap textures, swap views, ++i.
StitchIterate ==
    /\ pc = "loop"
    /\ LoopCondition(i, numIterations_)
    /\ stitchingContext' = View_Render(stitchingContext, views[currentView])
    /\ calls' = Append(calls, Call("Render", currentView))
    /\ currentTexture' = swapTexture
    /\ swapTexture' = currentTexture
    /\ currentView' = swapView
    /\ swapView' = currentView
    /\ i' = i + 1
    /\ UNCHANGED << assertsEnabled, pc, seams, seamsModel, initCall, imageData,
                    inputImage, numIterations_, views, frame >>

\* Mutant: the readback is taken from swapTexture.
StitchFinishReadsSwapTexture ==
    /\ pc = "loop"
    /\ ~LoopCondition(i, numIterations_)
    /\ imageData' = Texture2D_GetData(stitchingContext[swapTexture], imageData)
    /\ calls' = calls \o << Call("GetData", swapTexture), Call("EndFrame", "") >>
    /\ frame' = "ended"
    /\ pc' = "ready"
    /\ UNCHANGED << assertsEnabled, seams, seamsModel, initCall, stitchingContext,
                    inputImage, numIterations_, views, locals >>

\* The loop ends: currentTexture->GetData(0, imageData.data()); EndFrame.
\* Mutant: the frame is left open after the readback.
StitchFinishWithoutEndFrame ==
    /\ pc = "loop"
    /\ ~LoopCondition(i, numIterations_)
    /\ imageData' = Texture2D_GetData(stitchingContext[currentTexture], imageData)
    /\ calls' = Append(calls, Call("GetData", currentTexture))
    /\ frame' = "ended"
    /\ pc' = "ready"
    /\ UNCHANGED << assertsEnabled, seams, seamsModel, initCall, stitchingContext,
                    inputImage, numIterations_, views, locals >>

StitchFinish ==
    /\ pc = "loop"
    /\ ~LoopCondition(i, numIterations_)
    /\ imageData' = Texture2D_GetData(stitchingContext[currentTexture], imageData)
    /\ calls' = calls \o << Call("GetData", currentTexture), Call("EndFrame", "") >>
    /\ frame' = "ended"
    /\ pc' = "ready"
    /\ UNCHANGED << assertsEnabled, seams, seamsModel, initCall, stitchingContext,
                    inputImage, numIterations_, views, locals >>

\* A whole stitching job: the seams model and the context, each built once,
\* then any number of StitchLightmapSeams calls on them.
Next ==
    \/ CallCreateSeamsModel(JobSeamVectors)
    \/ InitializeStitchingContextReturns(JobLightmapSizes, JobChannelCounts)
    \/ InitializeStitchingContextAsserts(JobLightmapSizes, JobChannelCounts)
    \/ StitchSetup
    \/ StitchBeginFrameFails
    \/ StitchBeginFrame
    \/ StitchUpload
    \/ StitchIterate
    \/ StitchFinish

Spec == Init /\ [][Next]_vars

\* The seams model builder alone, over every seam vector.
NextSeams == CallCreateSeamsModel(SeamVectors)

SpecSeams == Init /\ [][NextSeams]_vars

\* The context initializer alone, over every size and channel count.
NextInit ==
    \/ InitializeStitchingContextReturns(LightmapSizes, ChannelCounts)
    \/ InitializeStitchingContextAsserts(LightmapSizes, ChannelCounts)

SpecInit == Init /\ [][NextInit]_vars

\* ------------------------------------------------------------------------
\* Observations on the recorded graphics calls

NumCalls(ops) == Cardinality({ k \in 1..Len(calls) : calls[k].op \in ops })

Writes == { k \in 1..Len(calls) : calls[k].op \in {"SetData", "Render"} }

\* The texture a recorded upload or render wrote to.
WriteTarget(call) ==
    IF call.op = "SetData" THEN call.arg ELSE views[call.arg].renderTarget

\* The texture written by the last upload or render of the call.
LastWrittenTexture ==
    IF Writes = {}
    THEN "none"
    ELSE WriteTarget(calls[CHOOSE k \in Writes : \A m \in Writes : m <= k])

BothAllocated ==
    stitchingContext.pingTexture_.allocated /\ stitchingContext.pongTexture_.allocated

ContextReturned == initCall.called /\ pc # "aborted"

ValidChannelCounts == {1, 2, 4}

\* ------------------------------------------------------------------------
\* C1: when BeginFrame returns false, StitchLightmapSeams returns with the
\* caller's pixel buffer equal to its value at call time and has made no
\* texture upload, no view render and no texture readback.
BeginFrameFailureLeavesBufferUntouched ==
    frame = "failed" =>
        /\ pc # "upload" /\ pc # "loop"
        /\ imageData = inputImage
        /\ NumCalls({"SetData", "Render", "GetData", "EndFrame"}) = 0

WitnessBeginFrameFailed ==
    /\ frame = "failed"
    /\ pc = "ready"
    /\ calls = << Call("BeginFrame", "false") >>
    /\ imageData = inputImage

\* C2: with numIterations_ = 0 and a successful BeginFrame the call makes no
\* render, reads back the texture it uploaded to, and leaves the pixel
\* buffer equal to its input.
ZeroIterationsIsPassThrough ==
    (frame = "ended" /\ numIterations_ = 0) =>
        /\ NumCalls({"Render"}) = 0
        /\ calls = << Call("BeginFrame", "true"),
                      Call("SetData", calls[2].arg),
                      Call("GetData", calls[2].arg),
                      Call("EndFrame", "") >>
        /\ imageData = inputImage

WitnessZeroIterations ==
    /\ frame = "ended"
    /\ numIterations_ = 0
    /\ pc = "ready"
    /\ stitchingContext.pongTexture_.allocated
    /\ stitchingContext.pongTexture_.data = inputImage
    /\ imageData = inputImage

\* C3: with a successful BeginFrame the loop makes exactly numIterations_
\* view renders and then ends with the readback: after i iterations i renders
\* have been made, the loop is never left before i reaches numIterations_ and
\* never renders more than numIterations_ times.
LoopRendersExactlyNumIterations ==
    /\ pc = "loop" =>
        /\ i <= numIterations_
        /\ NumCalls({"Render"}) = i
        /\ NumCalls({"GetData", "EndFrame"}) = 0
    /\ frame = "ended" =>
        /\ i = numIterations_
        /\ NumCalls({"Render"}) = numIterations_
        /\ Len(calls) = numIterations_ + 4
        /\ calls[Len(calls) - 1].op = "GetData"
        /\ calls[Len(calls)].op = "EndFrame"

WitnessMaxIterationsRendered ==
    /\ frame = "ended"
    /\ numIterations_ = MaxIterations
    /\ NumCalls({"Render"}) = MaxIterations

\* C4: the role exchange is a relabeling: after an even number of iterations
\* the texture written last (by the upload or a render) is the one the upload
\* went to, pongTexture_, and after an odd number it is pingTexture_; when
\* both textures exist that texture holds the uploaded image with one pass
\* applied per iteration.
LastWrittenAlternates ==
    (pc = "loop" \/ frame = "ended") =>
        /\ calls[2] = Call("SetData", "pongTexture_")
        /\ LastWrittenTexture = IF i % 2 = 0 THEN "pongTexture_" ELSE "pingTexture_"
        /\ BothAllocated =>
             stitchingContext[LastWrittenTexture].data =
                 [base |-> inputImage.base, passes |-> i]

WitnessEvenIterations ==
    /\ pc = "loop"
    /\ i = 2
    /\ BothAllocated
    /\ LastWrittenTexture = "pongTexture_"
    /\ stitchingContext.pongTexture_.data = [base |-> inputImage.base, passes |-> 2]

\* C5 as stated: in the loop the current texture is the one being written,
\* that is, the view about to be rendered has currentTexture as render target
\* (stated for a context built from valid arguments with both textures created).
CurrentTextureIsRenderTarget ==
    (/\ pc = "loop" /\ LoopCondition(i, numIterations_)
     /\ BothAllocated
     /\ initCall.numChannels \in ValidChannelCounts
     /\ initCall.lightmapSize > 0) =>
        /\ { currentTexture, swapTexture } = TextureNames
        /\ views[currentView].renderTarget = currentTexture

\* C5 as amended: in the loop exactly one of the two textures is labelled
\* current and it is the one being read: currentView samples currentTexture
\* and renders into swapTexture, swapView samples swapTexture and renders
\* into currentTexture; texture labels and view labels are exchanged together.
CurrentTextureIsRenderInput ==
    (pc = "upload" \/ pc = "loop") =>
        /\ { currentTexture, swapTexture } = TextureNames
        /\ { currentView, swapView } = ViewNames
        /\ views[currentView].scene.inputTexture = currentTexture
        /\ views[currentView].renderTarget = swapTexture
        /\ views[swapView].scene.inputTexture = swapTexture
        /\ views[swapView].renderTarget = currentTexture

WitnessLabelsExchanged ==
    /\ pc = "loop"
    /\ i = 1
    /\ currentTexture = "pingTexture_"
    /\ currentView = "pongView"
    /\ views[currentView].renderTarget = "pongTexture_"

\* C6: for a seam vector of size k the seams model has a vertex buffer of
\* exactly 2k vertices and one geometry with a line-list draw range of 2k
\* vertices and no indices; k = 0 gives a model with zero draw count.
SeamsModelHasTwoVerticesPerSeam ==
    seamsModel # NoModel =>
        LET k == Len(seams)
            vertexBuffer == seamsModel.vertexBuffers_[1]
        IN  /\ seamsModel.numGeometries = 1
            /\ vertexBuffer.vertexCount_ = 2 * k
            /\ Len(vertexBuffer.data) = 2 * k * VertexSize
            /\ seamsModel.geometry.vertexBuffers_ = << vertexBuffer >>
            /\ seamsModel.geometry.primitiveType_ = LINE_LIST
            /\ seamsModel.geometry.vertexStart_ = 0
            /\ seamsModel.geometry.vertexCount_ = 2 * k
            /\ seamsModel.geometry.indexCount_ = 0

WitnessSeamsModelBuilt ==
    /\ seamsModel # NoModel
    /\ Len(seams) = MaxSeams
    /\ seamsModel.geometry.vertexCount_ = 2 * MaxSeams

\* The format each valid channel count stands for.
FormatOfChannels(numChannels) ==
    CASE numChannels = 1 -> "Float32"
      [] numChannels = 2 -> "RGFloat32"
      [] numChannels = 4 -> "RGBAFloat32"

\* The format InitializeStitchingContext handed to SetSize, where SetSize stored it.
StoredFormatIs(format) ==
    \A t \in TextureNames :
        initCall.outcomes[t] # "rejected" => stitchingContext[t].format_ = format

AllocationFailurePropagated ==
    (/\ initCall.numChannels \in ValidChannelCounts
     /\ initCall.lightmapSize > 0
     /\ \E t \in TextureNames : initCall.outcomes[t] \in {"rejected", "createFailed"}) =>
        pc \notin {"upload", "loop"} /\ frame # "ended"

\* C9: InitializeStitchingContext with lightmapSize = 0 hits a fatal assertion
\* and never returns a context with zero-sized textures.
ZeroLightmapSizeAsserts ==
    (/\ initCall.called
     /\ initCall.numChannels \in ValidChannelCounts
     /\ initCall.lightmapSize = 0) => pc = "aborted"

\* C10: in every returned context, and after every later StitchLightmapSeams
\* call on it, both textures are lightmapSize x lightmapSize and of the one
\* format resolved for the channel count, also when a SetSize call fails.
PingPongTexturesIdentical ==
    (/\ ContextReturned
     /\ initCall.numChannels \in ValidChannelCounts
     /\ initCall.lightmapSize > 0) =>
        \A t \in TextureNames :
            /\ stitchingContext[t].allocated
            /\ stitchingContext[t].width_ = stitchingContext.lightmapSize_
            /\ stitchingContext[t].height_ = stitchingContext.lightmapSize_
            /\ stitchingContext[t].format_ = GetStitchTextureFormat(initCall.numChannels).format

\* Every recorded render sampled the texture written by the call before it
\* (the upload or the previous render) and wrote the other texture.
RendersSampleLatestWrite ==
    \A k \in 1..Len(calls) :
        calls[k].op = "Render" =>
            /\ k > 1
            /\ calls[k - 1].op \in {"SetData", "Render"}
            /\ views[calls[k].arg].scene.inputTexture = WriteTarget(calls[k - 1])
            /\ views[calls[k].arg].renderTarget # WriteTarget(calls[k - 1])

\* C11: every iteration samples the texture written most recently and writes
\* the other one, the readback reads the texture written last, and the buffer
\* returned is the uploaded image with numIterations_ passes applied (stated
\* for a context built from valid arguments).
ReturnedBufferReflectsAllPasses ==
    (/\ initCall.numChannels \in ValidChannelCounts
     /\ initCall.lightmapSize > 0
     /\ pc = "loop" \/ frame = "ended") =>
        /\ RendersSampleLatestWrite
        /\ frame = "ended" =>
            /\ calls[Len(calls) - 1] = Call("GetData", LastWrittenTexture)
            /\ imageData = [base |-> inputImage.base, passes |-> numIterations_]

\* StitchLightmapSeams has been entered at least once.
StitchEntered ==
    pc \in {"beginFrame", "upload", "loop"} \/ frame \in {"failed", "ended"}

\* C12: a call builds exactly two scene/view pairs, before BeginFrame and
\* before the first iteration, one sampling ping and rendering into pong and
\* one sampling pong and rendering into ping; no view samples its own render
\* target, and the pairs stay as built through the loop and to the return.
TwoFixedSceneViewPairs ==
    /\ pc = "beginFrame" => calls = << >> /\ i = 0
    /\ StitchEntered =>
        /\ Cardinality(DOMAIN views) = 2
        /\ { << views[v].scene.inputTexture, views[v].renderTarget >> : v \in DOMAIN views } =
              { << "pingTexture_", "pongTexture_" >>, << "pongTexture_", "pingTexture_" >> }
        /\ \A v \in DOMAIN views :
              /\ views[v].scene.inputTexture # views[v].renderTarget
              /\ views[v].scene.seamsModel = seamsModel

WitnessViewsFixedThroughLoop ==
    /\ pc = "loop"
    /\ i = MaxIterations
    /\ views.pingView.scene.inputTexture = "pongTexture_"
    /\ views.pingView.renderTarget = "pingTexture_"
    /\ views.pongView.scene.inputTexture = "pingTexture_"
    /\ views.pongView.renderTarget = "pongTexture_"

\* The operations recorded so far, in order.
CallOps == [k \in 1..Len(calls) |-> calls[k].op]

\* The operations of a call whose BeginFrame succeeded.
SuccessfulCallOps ==
    << "BeginFrame", "SetData" >> \o [k \in 1..numIterations_ |-> "Render"]
        \o << "GetData", "EndFrame" >>

\* C13: BeginFrame is called exactly once per call, first. When it succeeds
\* the calls are BeginFrame, one SetData, numIterations_ renders, one GetData,
\* one EndFrame, in that order; when it fails nothing follows it, and EndFrame
\* is called exactly when BeginFrame succeeded.
FrameCallOrder ==
    /\ NumCalls({"BeginFrame"}) = (IF calls = << >> THEN 0 ELSE 1)
    /\ calls # << >> =>
        /\ calls[1].op = "BeginFrame"
        /\ calls[1].arg = "true" =>
            /\ Len(calls) <= Len(SuccessfulCallOps)
            /\ \A k \in 1..Len(calls) : CallOps[k] = SuccessfulCallOps[k]
        /\ calls[1].arg = "false" => Len(calls) = 1 /\ frame = "failed"
    /\ frame = "failed" => calls = << Call("BeginFrame", "false") >>
    /\ frame = "ended" => CallOps = SuccessfulCallOps
    /\ (pc = "ready" /\ calls # << >>) =>
        (NumCalls({"EndFrame"}) = 1 <=> calls[1] = Call("BeginFrame", "true"))
    /\ NumCalls({"EndFrame"}) = (IF frame = "ended" THEN 1 ELSE 0)

WitnessFrameEnded ==
    /\ pc = "ready"
    /\ frame = "ended"
    /\ numIterations_ = 2
    /\ calls[1] = Call("BeginFrame", "true")
    /\ calls[6] = Call("EndFrame", "")

\* C14: the vertex data holds 10 floats per seam; seam k (in vector order)
\* contributes endpoint 0 then endpoint 1, each as x, 0, 1 - y, other-side x,
\* other-side y, the other-side Y not mirrored.
SeamVertexLayout ==
    seamsModel # NoModel =>
        LET data == seamsModel.vertexBuffers_[1].data
        IN  /\ Len(data) = 10 * Len(seams)
            /\ \A k \in 1..Len(seams) : \A e \in 1..2 :
                  LET o == (k - 1) * 10 + (e - 1) * 5
                  IN  /\ data[o + 1] = seams[k].positions_[e].x_
                      /\ data[o + 2] = 0
                      /\ data[o + 3] = 1 - seams[k].positions_[e].y_
                      /\ data[o + 4] = seams[k].otherPositions_[e].x_
                      /\ data[o + 5] = seams[k].otherPositions_[e].y_

WitnessDistinctSeamsLaidOut ==
    /\ seamsModel # NoModel
    /\ Len(seams) = MaxSeams
    /\ seams[1] # seams[2]
    /\ seams[1] = ScenarioSeam
    /\ Len(seamsModel.vertexBuffers_[1].data) = 10 * MaxSeams

\* Distance from the camera of a scene to a node below it.
CameraDistance(scene, node) == scene.cameraNode.y - node.y

\* C15: in every scene CreateStitchingScene built, the camera is orthographic,
\* at height 1 looking down, its near-clip setting is smaller than the distance
\* of the seams layer and its far-clip setting is larger than the distance of
\* the background layer (stated for a context built from valid arguments).
ClipRangeCoversBothLayers ==
    (/\ StitchEntered
     /\ initCall.numChannels \in ValidChannelCounts
     /\ initCall.lightmapSize > 0
     /\ BothAllocated) =>
        \A v \in DOMAIN views :
            LET scene == views[v].scene
                camera == scene.cameraNode.camera
            IN  /\ camera.orthographic_
                /\ scene.cameraNode.y = 100
                /\ scene.cameraNode.direction = "DOWN"
                /\ CameraDistance(scene, scene.seamsNode) = 90
                /\ CameraDistance(scene, scene.backgroundNode) = 100
                /\ camera.nearClip_ < CameraDistance(scene, scene.seamsNode)
                /\ camera.farClip_ > CameraDistance(scene, scene.backgroundNode)

====
